---------------------------- MODULE Spec2Model ----------------------------
(***************************************************************************)
(* Model of src/main.go: a Fiber service with two handlers, registerUser   *)
(* (POST /register) and loginUser (POST /login), over one gorm/sqlite      *)
(* table of User rows.  Fiber runs every request on its own goroutine; the *)
(* only state the handlers share is the users table, and every access to   *)
(* it is one SQL statement.  A handler is therefore modelled as two        *)
(* steps: its request-local part (parse, validate, and for registerUser    *)
(* hash), then its one statement on the table with the comparison and the  *)
(* response that follow it.  Requests interleave between the two.          *)
(***************************************************************************)
EXTENDS Integers, Sequences, FiniteSets, TLC

\* Number of requests that can be in flight at the same time.
NumReqs == 2
\* Largest value a request body may carry in its "id" field.
MaxId == 2
\* Bytes of key material bcrypt's Blowfish key schedule reads (18 words).
KeyBytes == 72

Reqs == 1..NumReqs

\* ---- request bodies ----------------------------------------------------
Names == {"", "Ann"}
Emails == {"", "ann@x.com", "bob@x.com"}
\* A password is a sequence of bytes: "", "a", "a\u0000a" and "b".
Passwords == {<<>>, <<1>>, <<1, 0, 1>>, <<2>>}
\* encoding/json matches the key "id" to the field ID; 0 is the zero value
\* of a body without it.
BodyIds == 0..MaxId
\* The salt GenerateFromPassword draws.  A hash is only ever compared with
\* a password under the salt it carries, so one value is enough.
Salts == {"s1"}
\* The decoded bodies of POST /register and POST /login.
RegisterBodies ==
  [ID : BodyIds, Name : Names, Email : Emails, Password : Passwords]
LoginBodies == [Email : Emails, Password : Passwords]
NoInput == [Email |-> "", Password |-> <<>>]

\* ---- type User struct --------------------------------------------------
NoHash == <<>>
User(id, name, email, password) ==
  [ID |-> id, Name |-> name, Email |-> email, Password |-> password]
ZeroUser == User(0, "", "", NoHash)

\* ---- golang.org/x/crypto/bcrypt ----------------------------------------
\* bcrypt keys Blowfish with the password followed by a NUL byte; the key
\* schedule reads KeyBytes bytes of it, cycling when the key is shorter.
EffectiveKey(password) ==
  LET ckey == password \o <<0>>
  IN  [i \in 1..KeyBytes |-> ckey[((i - 1) % Len(ckey)) + 1]]

\* The digest is an opaque one-to-one image of the salt and the effective
\* key.  The key is written as the shortest prefix whose repetition it is,
\* which determines it.
Period(key) ==
  CHOOSE n \in 1..KeyBytes :
    /\ \A i \in 1..KeyBytes : key[i] = key[((i - 1) % n) + 1]
    /\ \A m \in 1..(n - 1) :
         \E i \in 1..KeyBytes : key[i] # key[((i - 1) % m) + 1]
Digest[password \in Passwords] ==
  LET key == EffectiveKey(password) IN SubSeq(key, 1, Period(key))

\* The hash carries its salt.
GenerateFromPassword(password, salt) == <<salt, Digest[password]>>

\* Mutant: the stored hash compared with the password itself.
ComparePlain(hashedPassword, password) ==
  IF Len(hashedPassword) # 2 THEN "ErrHashTooShort"
  ELSE IF hashedPassword[2] = password THEN "nil"
       ELSE "ErrMismatchedHashAndPassword"

CompareHashAndPassword(hashedPassword, password) ==
  IF Len(hashedPassword) # 2 THEN "ErrHashTooShort"
  ELSE IF hashedPassword = GenerateFromPassword(password, hashedPassword[1])
       THEN "nil"
       ELSE "ErrMismatchedHashAndPassword"

\* ---- the users table (gorm + sqlite) -----------------------------------
Max(S) == CHOOSE x \in S : \A y \in S : y <= x

\* INTEGER PRIMARY KEY AUTOINCREMENT: one more than the largest id.
AutoId(table) == IF table = {} THEN 1 ELSE Max({u.ID : u \in table}) + 1

\* Mutant: the table without the unique index on Email.
CreateNoUniqueIndex(table, user) ==
  LET id == IF user.ID = 0 THEN AutoId(table) ELSE user.ID
  IN  IF \E u \in table : u.ID = id
        THEN [err |-> "UNIQUE constraint failed: users.id", table |-> table]
      ELSE [err |-> "nil",
            table |-> table \cup {User(id, user.Name, user.Email, user.Password)}]

\* Mutant: an INSERT that replaces the row on a conflict (an upsert).
CreateOrReplace(table, user) ==
  LET id == IF user.ID = 0 THEN AutoId(table) ELSE user.ID
      kept == {u \in table : u.ID # id /\ u.Email # user.Email}
  IN  [err |-> "nil",
       table |-> kept \cup {User(id, user.Name, user.Email, user.Password)}]

\* db.Create(user): INSERT of one row.  A zero ID is left to the table, a
\* non-zero ID is inserted as given.  ID is the primary key and Email
\* carries a unique index.
Create(table, user) ==
  LET id == IF user.ID = 0 THEN AutoId(table) ELSE user.ID
  IN  IF \E u \in table : u.ID = id
        THEN [err |-> "UNIQUE constraint failed: users.id", table |-> table]
      ELSE IF \E u \in table : u.Email = user.Email
        THEN [err |-> "UNIQUE constraint failed: users.email", table |-> table]
      ELSE [err |-> "nil",
            table |-> table \cup {User(id, user.Name, user.Email, user.Password)}]

\* db.Where("email = ?", email).First(user)
First(table, email) ==
  IF \E u \in table : u.Email = email
    THEN [err |-> "nil", user |-> CHOOSE u \in table : u.Email = email]
    ELSE [err |-> "record not found", user |-> ZeroUser]

\* ---- responses ---------------------------------------------------------
Response(status, key, text) == [status |-> status, body |-> <<key, text>>]
NoResponse == Response(0, "", "")
ParseFailed == Response(400, "error", "Failed to parse request body")
RegisterRequired == Response(400, "error", "Name, email, and password are required")
HashFailed == Response(500, "error", "Failed to hash password")
SaveFailed == Response(500, "error", "Failed to save user to database")
Registered == Response(200, "message", "User registered successfully")
LoginRequired == Response(400, "error", "Email and password are required")
LoginSucceeded == Response(200, "message", "Login successful")
\* Mutant: a lookup failure reported as what it is.
LookupFailedNotFound == Response(404, "error", "User not found")
\* loginUser answers a failed lookup and a failed comparison from two places.
LookupFailed == Response(401, "error", "Invalid email or password")
CompareFailed == Response(401, "error", "Invalid email or password")

\* ---- state -------------------------------------------------------------
VARIABLES
  users,       \* the rows of the users table
  req,         \* per request goroutine: its position, locals and response
  accepted     \* history: per email, the passwords registration accepted

vars == <<users, req, accepted>>

\* What a request met on its way (history only, never read by a handler):
\*   email   the email of a registration that got as far as the INSERT
\*   plain   the password of a registration in flight (the handler has
\*           replaced it by its hash)
\*   racing  registerUser: the request was waiting to INSERT together with
\*           another one for the same email, while no account for it existed
\*   known   loginUser: the (email, password) pair had been accepted by a
\*           registration when the lookup ran
\*   empty   the body had an empty required field
\*   cause   which branch produced the response
\*   hashes, stmts   bcrypt calls and SQL statements made
Seen(email, plain, racing, known, empty, cause, hashes, stmts) ==
  [email |-> email, plain |-> plain, racing |-> racing, known |-> known,
   empty |-> empty, cause |-> cause, hashes |-> hashes, stmts |-> stmts]
Nothing(empty, cause, hashes, stmts) ==
  Seen("", <<>>, FALSE, FALSE, empty, cause, hashes, stmts)

\* A request's record: user is registerUser's local of line 75, input is
\* loginUser's of line 113.
Request(pc, kind, user, input, resp, seen) ==
  [pc |-> pc, kind |-> kind, user |-> user, input |-> input, resp |-> resp,
   seen |-> seen]

Idle == Request("idle", "", ZeroUser, NoInput, NoResponse, Nothing(FALSE, "", 0, 0))

\* A finished request: the locals are gone, the response is out.
Done(kind, resp, seen) == Request("done", kind, ZeroUser, NoInput, resp, seen)

Stored(table, email) == \E u \in table : u.Email = email

Init ==
  /\ users = {}
  /\ req = [r \in Reqs |-> Idle]
  /\ accepted = [e \in Emails |-> <<>>]

\* ---- registerUser ------------------------------------------------------
\* Mutant: the validation without its email test.
RegisterMissingNoEmail(user) == user.Name = "" \/ user.Password = <<>>

\* The validation of line 83.
RegisterMissing(user) ==
  user.Name = "" \/ user.Email = "" \/ user.Password = <<>>

\* registerUser up to the database: parse, validate, hash.  parsed is
\* BodyParser's outcome, hashed is GenerateFromPassword's (it fails when the
\* random source fails and, in recent releases, on passwords over KeyBytes).
RegisterLocal(parsed, user, hashed, salt) ==
  LET empty == user.Name = "" \/ user.Email = "" \/ user.Password = <<>>
  IN  IF ~parsed
        THEN Done("register", ParseFailed, Nothing(FALSE, "parse", 0, 0))
      ELSE IF RegisterMissing(user)
        THEN Done("register", RegisterRequired,
                  Nothing(empty, "validation", 0, 0))
      ELSE IF ~hashed
        THEN Done("register", HashFailed, Nothing(empty, "hash", 1, 0))
      ELSE Request("create", "register",
                   [user EXCEPT !.Password = GenerateFromPassword(user.Password, salt)],
                   NoInput, NoResponse,
                   Seen(user.Email, user.Password, FALSE, FALSE, empty, "", 1, 0))

\* The requests after r has come in as rec: r and the registrations
\* waiting to INSERT the same, not yet stored, email are marked as racing.
Admit(r, rec) ==
  LET rivals ==
        IF rec.pc = "create" /\ ~Stored(users, rec.user.Email)
          THEN {q \in Reqs \ {r} : /\ req[q].pc = "create"
                                   /\ req[q].user.Email = rec.user.Email}
          ELSE {}
  IN  [q \in Reqs |->
         IF q = r THEN [rec EXCEPT !.seen.racing = (rivals # {})]
         ELSE IF q \in rivals THEN [req[q] EXCEPT !.seen.racing = TRUE]
         ELSE req[q]]

\* The response that follows db.Create.
RegisterCreateResponse(err) == IF err # "nil" THEN SaveFailed ELSE Registered

CreateCause(err) ==
  CASE err = "nil" -> "created"
    [] err = "UNIQUE constraint failed: users.email" -> "duplicate"
    [] err = "UNIQUE constraint failed: users.id" -> "primarykey"
    [] OTHER -> "storage"

\* A failure of the database itself (sqlite: the file is locked, the disk
\* is full, ...), as the statement's error.
StorageFailure == "database is locked"

\* Every way the local part can leave a request, over all bodies.
RegisterArrivals ==
  {RegisterLocal(parsed, user, hashed, salt) :
     parsed \in BOOLEAN, user \in RegisterBodies,
     hashed \in BOOLEAN, salt \in Salts}

RegisterRecv(r) ==
  /\ req[r].pc \in {"idle", "done"}
  /\ \E rec \in RegisterArrivals : req' = Admit(r, rec)
  /\ UNCHANGED <<users, accepted>>

RegisterCreate(r) ==
  /\ req[r].pc = "create"
  /\ \E fault \in BOOLEAN :
        LET res == IF fault THEN [err |-> StorageFailure, table |-> users]
                   ELSE Create(users, req[r].user)
            resp == RegisterCreateResponse(res.err)
            was == req[r].seen
        IN  /\ users' = res.table
            /\ req' = [req EXCEPT ![r] =
                  Done("register", resp,
                       Seen(was.email, <<>>, was.racing, FALSE, was.empty,
                            CreateCause(res.err), was.hashes, 1))]
            /\ accepted' =
                  IF resp.status = 200
                    THEN [accepted EXCEPT ![was.email] = Append(@, was.plain)]
                    ELSE accepted

\* ---- loginUser ---------------------------------------------------------
\* The validation of line 124.
LoginMissing(input) == input.Email = "" \/ input.Password = <<>>

\* loginUser up to the database: parse, validate.
LoginLocal(parsed, input) ==
  LET empty == input.Email = "" \/ input.Password = <<>>
  IN  IF ~parsed
        THEN Done("login", ParseFailed, Nothing(FALSE, "parse", 0, 0))
      ELSE IF LoginMissing(input)
        THEN Done("login", LoginRequired, Nothing(empty, "validation", 0, 0))
      ELSE Request("find", "login", ZeroUser, input, NoResponse,
                   Nothing(empty, "", 0, 0))

\* loginUser from the lookup on: what it met and the response.
LoginVerify(found, input) ==
  IF found.err # "nil"
    THEN [cause |-> IF found.err = "record not found" THEN "notfound"
                    ELSE "storage",
          hashes |-> 0, resp |-> LookupFailed]
  ELSE LET err == CompareHashAndPassword(found.user.Password, input.Password)
       IN  IF err # "nil"
             THEN [cause |-> IF err = "ErrMismatchedHashAndPassword"
                             THEN "mismatch" ELSE "malformed",
                   hashes |-> 1, resp |-> CompareFailed]
             ELSE [cause |-> "match", hashes |-> 1, resp |-> LoginSucceeded]

\* Every way the local part can leave a request, over all bodies.
LoginArrivals ==
  {LoginLocal(parsed, input) : parsed \in BOOLEAN, input \in LoginBodies}

LoginRecv(r) ==
  /\ req[r].pc \in {"idle", "done"}
  /\ \E rec \in LoginArrivals : req' = [req EXCEPT ![r] = rec]
  /\ UNCHANGED <<users, accepted>>

LoginFind(r) ==
  /\ req[r].pc = "find"
  /\ \E fault \in BOOLEAN :
        LET input == req[r].input
            found == IF fault THEN [err |-> StorageFailure, user |-> ZeroUser]
                     ELSE First(users, input.Email)
            out == LoginVerify(found, input)
            known == \E i \in 1..Len(accepted[input.Email]) :
                       accepted[input.Email][i] = input.Password
        IN  req' = [req EXCEPT ![r] =
                  Done("login", out.resp,
                       Seen("", <<>>, FALSE, known, req[r].seen.empty,
                            out.cause, out.hashes, 1))]
  /\ UNCHANGED <<users, accepted>>

Next ==
  \E r \in Reqs :
    \/ RegisterRecv(r)
    \/ RegisterCreate(r)
    \/ LoginRecv(r)
    \/ LoginFind(r)

Spec == Init /\ [][Next]_vars

\* ---- properties --------------------------------------------------------
Finished(r, kind) == req[r].pc = "done" /\ req[r].kind = kind
Rows(email) == {u \in users : u.Email = email}
\* The step in which request r runs its INSERT.
CreateStep(r) == req[r].pc = "create" /\ req'[r].pc = "done"
\* The response kinds of the error taxonomy, by HTTP status.
Kind(resp) ==
  CASE resp.status = 200 -> "Success"
    [] resp.status = 400 -> "ValidationError"
    [] resp.status = 401 -> "UnauthorizedError"
    [] resp.status = 409 -> "ConflictError"
    [] resp.status = 500 -> "InternalError"
    [] OTHER -> "none"
\* The registrations for email that ran concurrently: each was waiting to
\* INSERT together with another while no account for the email existed.
Racing(email) ==
  {r \in Reqs : /\ req[r].kind = "register"
                /\ req[r].pc \in {"create", "done"}
                /\ req[r].seen.email = email
                /\ req[r].seen.racing}

C2_UniqueEmail ==
  /\ [](\A u, v \in users : u.Email = v.Email => u = v)
  /\ [][\A r \in Reqs :
          (CreateStep(r) /\ Stored(users, req[r].user.Email)) =>
            (req'[r].resp.status # 200 /\ users' = users)]_vars

C2_Witness ==
  \E r \in Reqs :
    /\ Finished(r, "register")
    /\ req[r].seen.cause = "duplicate"
    /\ Cardinality(Rows(req[r].seen.email)) = 1

\* C3 as stated: when registrations racing for one email have all finished,
\* exactly one of them got 200 and exactly one account for the email is
\* stored.
C3_ExactlyOneWins ==
  \A e \in Emails \ {""} :
    (Cardinality(Racing(e)) >= 2 /\ \A r \in Racing(e) : req[r].pc = "done") =>
      /\ Cardinality({r \in Racing(e) : req[r].resp.status = 200}) = 1
      /\ Cardinality(Rows(e)) = 1

\* C3 as amended: of the registrations racing for one email at most one
\* gets 200 and every other one fails; the accounts stored for the email
\* are as many as the registrations that got 200, at most one; and there is
\* exactly one as soon as one of the racing requests has met no storage
\* failure and no primary-key collision on its INSERT.
C3_AtMostOneWins ==
  \A e \in Emails \ {""} :
    /\ Cardinality({r \in Racing(e) : req[r].resp.status = 200}) <= 1
    /\ Len(accepted[e]) = Cardinality(Rows(e))
    /\ Cardinality(Rows(e)) <= 1
    /\ \A r \in Racing(e) :
         req[r].pc = "done" =>
           /\ req[r].resp.status = 200 <=> req[r].seen.cause = "created"
           /\ req[r].seen.cause \in {"created", "duplicate"} =>
                Cardinality(Rows(e)) = 1

C3_Witness ==
  \E r1, r2 \in Reqs :
    /\ r1 # r2
    /\ r1 \in Racing(req[r2].seen.email)
    /\ r2 \in Racing(req[r1].seen.email)
    /\ req[r1].pc = "done" /\ req[r1].resp = Registered
    /\ req[r2].pc = "done" /\ req[r2].seen.cause = "duplicate"

\* C4: loginUser returns 200 only for an email and password that a
\* registration accepted; with a stored email and any other non-empty
\* password it returns 401.
C4_OnlyRegisteredPassword ==
  \A r \in Reqs :
    (Finished(r, "login") /\ ~req[r].seen.known) =>
      /\ req[r].resp.status # 200
      /\ req[r].seen.hashes = 1 => req[r].resp.status = 401

\* C5: loginUser's response to an email that is not stored is the response
\* to a stored email with a wrong password: 401 "Invalid email or password".
C5_SameUnauthorized ==
  \A r1, r2 \in Reqs :
    ( /\ Finished(r1, "login") /\ req[r1].seen.cause = "notfound"
      /\ Finished(r2, "login") /\ req[r2].seen.cause = "mismatch" ) =>
        /\ req[r1].resp = req[r2].resp
        /\ req[r1].resp = Response(401, "error", "Invalid email or password")

C5_Witness ==
  \E r1, r2 \in Reqs :
    /\ Finished(r1, "login") /\ req[r1].seen.cause = "notfound"
    /\ Finished(r2, "login") /\ req[r2].seen.cause = "mismatch"

\* C6: a request with an empty required field gets the 400 validation
\* response, and has made no bcrypt call and no SQL statement.
C6_ValidationFirst ==
  \A r \in Reqs :
    req[r].seen.empty =>
      /\ req[r].pc = "done"
      /\ req[r].resp =
           IF req[r].kind = "register" THEN RegisterRequired ELSE LoginRequired
      /\ req[r].seen.hashes = 0
      /\ req[r].seen.stmts = 0

C6_Witness ==
  \E r1, r2 \in Reqs :
    /\ Finished(r1, "register") /\ req[r1].seen.empty
    /\ Finished(r2, "login") /\ req[r2].seen.empty

\* C7: a registration that fails because its email is already stored gets
\* ConflictError, a kind other than the InternalError of a storage or
\* hashing failure; every other outcome of the INSERT is Success.
C7_DuplicateIsConflict ==
  \A r \in Reqs :
    Finished(r, "register") =>
      /\ req[r].seen.cause = "duplicate" => Kind(req[r].resp) = "ConflictError"
      /\ req[r].seen.cause \in {"storage", "hash"} =>
           Kind(req[r].resp) = "InternalError"
      /\ req[r].seen.cause = "created" => Kind(req[r].resp) = "Success"

\* C8: loginUser answers UnauthorizedError only to a lookup that finds no
\* row and to a password mismatch; a lookup that fails with a storage error
\* and a comparison that fails otherwise get InternalError.
C8_OnlyNotFoundIsUnauthorized ==
  \A r \in Reqs :
    Finished(r, "login") =>
      /\ Kind(req[r].resp) = "UnauthorizedError" =>
           req[r].seen.cause \in {"notfound", "mismatch"}
      /\ req[r].seen.cause \in {"storage", "malformed"} =>
           Kind(req[r].resp) = "InternalError"

\* C9: the id of a created account is the one the table assigns, whatever
\* the request body carries; ids are pairwise distinct and no stored
\* account's id changes.
C9_StoreAssignsId ==
  /\ [](\A u, v \in users : u.ID = v.ID => u = v)
  /\ [][/\ \A u \in users' \ users : u.ID = AutoId(users)
        /\ \A u \in users : u \in users']_vars

\* C10: stored accounts are only added: every step keeps every stored
\* account as it is; loginUser and a failed registerUser leave the table
\* unchanged, and a successful registerUser adds exactly one account.
C10_OnlyAdded ==
  [][/\ users \subseteq users'
     /\ IF \E r \in Reqs : CreateStep(r) /\ req'[r].resp.status = 200
          THEN Cardinality(users' \ users) = 1
          ELSE users' = users]_vars

C10_Witness ==
  /\ Cardinality(users) = 2
  /\ \E r1, r2 \in Reqs :
       /\ Finished(r1, "register") /\ req[r1].resp = SaveFailed
       /\ Finished(r2, "login")

====
